---- MODULE Spec2Model ----
(***************************************************************************)
(* The id-keyed combobox controller (src/unnamed/part_000): the Combobox   *)
(* provider, its keyboard handler, the item registry (itemsMap) and the    *)
(* leaves that call its mutators (ComboboxInput, ComboboxContent,          *)
(* ComboboxItem).                                                          *)
(*                                                                         *)
(* One action is one browser or host event: the handler runs, React        *)
(* applies the queued state, re-renders, and runs the items' register /    *)
(* unregister effects, all before the next event.                          *)
(*                                                                         *)
(* Item ids are non-empty strings: the code uses '' for "no value"         *)
(* (useState(controlledValue || '')) and tests activeItem by truthiness.   *)
(***************************************************************************)
EXTENDS Integers, Sequences, FiniteSets, TLC

\* ------------------------------------------------------------------ bounds
\* number of distinct items the host can render
MaxItems == 3
\* number of items the host renders with disabled = true
MaxDisabled == 1

\* number of ArrowDown presses in a row that are counted
MaxPresses == 4

\* number of distinct items the host of the index-based widget can render
MaxIxItems == 2
\* number of item handles the shared items array can hold
MaxHandles == 3

\* the host's items, in the order the host renders them (demo data)
IdNames == <<"react", "vue", "angular", "svelte", "next">>
Ids == {IdNames[i] : i \in 1..MaxItems}
IxIds == {IdNames[i] : i \in 1..MaxIxItems}

\* texts the user can have in the input
SearchTexts == {"", "vu"}

\* activeItem: string | null
null == "<null>"
\* value?: string, the prop left out
undefined == "<undefined>"

Keys == {"ArrowDown", "ArrowUp", "Enter", "Escape", "Tab"}

VARIABLES
    search,           \* useState('')
    open,             \* useState(defaultOpen)
    value,            \* useState(controlledValue || '')
    activeItem,       \* useState<string | null>(null)
    itemsMap,         \* useRef(new Map()): the keys, in insertion order
    controlledValue,  \* the host's value prop, or undefined
    shown,            \* the ids the host renders inside ComboboxContent
    disabledIds,      \* the ids whose item has disabled = true
    focused,          \* the input element has the keyboard focus
    throwing,         \* the host callbacks that throw when called
    calls,            \* host callbacks invoked by the last event, in order
    prevented,        \* the last event had preventDefault() called
    scrolled,         \* the ids whose handle got scrollIntoView in the last event
    ev,               \* the last event
    pre,              \* the controller state the last event started from
    pre2,             \* the arrow key press before the last one, if any
    presses           \* ArrowDown presses in a row after an opening ArrowDown

\* the index-based controller (Combobox.tsx)
VARIABLES
    openIx,           \* useState(false)
    searchValue,      \* useState('')
    activeIndex,      \* useState(-1)
    itemsRef,         \* itemsRef.current: container, input wrapper, item handles
    itemCount,        \* items.current.length - 2 as of ComboboxInput's last render
    shownIx,          \* the ids the host renders inside ComboboxContent
    disabledIx,       \* the ids whose item has disabled = true
    focusedIx,        \* the input element has the keyboard focus
    splices,          \* this React runs an effect cleanup before it detaches refs
    callsIx,          \* host callbacks invoked by the last event, in order
    evIx,             \* the last event
    preIx             \* the controller state the last event started from

idVars == <<search, open, value, activeItem, itemsMap, controlledValue, shown,
            disabledIds, focused, throwing, calls, prevented, scrolled, ev, pre,
            pre2, presses>>

ixVars == <<openIx, searchValue, activeIndex, itemsRef, itemCount, shownIx,
            disabledIx, focusedIx, splices, callsIx, evIx, preIx>>

\* the last call of useCombobox by a leaf: where, with what context, and what
\* came of it
VARIABLE hook

vars == <<idVars, ixVars, hook>>

\* ----------------------------------------------------------- JS primitives
Range(s) == {s[i] : i \in 1..Len(s)}

\* JavaScript truthiness of a string | null
Truthy(x) == x # null /\ x # ""

\* Array.prototype.indexOf, 0-based, -1 when absent
indexOf(items, x) ==
    IF x \in Range(items)
    THEN (CHOOSE i \in 1..Len(items) :
              items[i] = x /\ \A j \in 1..(i - 1) : items[j] # x) - 1
    ELSE -1

\* JavaScript %: the result takes the sign of the dividend
JsRem(a, n) == IF a >= 0 THEN a % n ELSE 0 - ((0 - a) % n)

\* items[i] for a 0-based i; undefined (here null) outside the array
At(items, i) == IF i >= 0 /\ i < Len(items) THEN items[i + 1] ELSE null

\* ------------------------------------------------------- the item registry
\* a registration that moves an existing key to the end
registerItem_MovesToEnd(map, id) ==
    Append(SelectSeq(map, LAMBDA x : x # id), id)

\* Map.prototype.set: a new key goes last, an existing key keeps its place
registerItem(map, id) == IF id \in Range(map) THEN map ELSE Append(map, id)

\* an unregistration that leaves the key in the map
unregisterItem_KeepsKey(map, id) == map

\* Map.prototype.delete
unregisterItem(map, id) == SelectSeq(map, LAMBDA x : x # id)

RECURSIVE registerAll(_, _)
registerAll(map, ids) ==
    IF ids = <<>> THEN map
    ELSE registerAll(registerItem(map, Head(ids)), Tail(ids))

RECURSIVE unregisterAll(_, _)
unregisterAll(map, ids) ==
    IF ids = <<>> THEN map
    ELSE unregisterAll(unregisterItem(map, Head(ids)), Tail(ids))

\* the host renders its items in the order of its own list
RenderOrder(S) ==
    SelectSeq(SubSeq(IdNames, 1, MaxItems), LAMBDA x : x \in S)

\* ComboboxContent returns null when closed, so its items are mounted only
\* while open
Mounted(o, S) == IF o THEN RenderOrder(S) ELSE <<>>

\* A render of Combobox makes new registerItem / unregisterItem functions, so
\* every item's effect is cleaned up and run again: all cleanups first, then
\* all setups in tree order.
ItemEffects(map, old, new) == registerAll(unregisterAll(map, old), new)

\* A render below Combobox (a component of the host between ComboboxContent
\* and the items) leaves the context value as it is: only the items that
\* unmount are cleaned up and only the new items run their effect.
SubtreeEffects(map, old, new) ==
    registerAll(unregisterAll(map, SelectSeq(old, LAMBDA x : x \notin Range(new))),
                SelectSeq(new, LAMBDA x : x \notin Range(old)))

\* --------------------------------------------------- the context mutators
\* a handler works on a record: the state it queues and what it calls out
Start == [search |-> search, open |-> open, value |-> value,
          activeItem |-> activeItem,
          calls |-> <<>>, prevented |-> FALSE, scrolled |-> {},
          thrown |-> FALSE]

\* the statement that gives s runs unless an exception left the handler before
Run(r, s) == IF r.thrown THEN r ELSE s

\* cb?.(arg): an exception the callback throws leaves the handler
Call(r, cb, arg) ==
    Run(r, [r EXCEPT !.calls = Append(@, [cb |-> cb, arg |-> arg]),
                     !.thrown = cb \in throwing])

BoolStr(b) == IF b THEN "true" ELSE "false"

setOpen(r, newOpen) ==
    Run(r, Call([r EXCEPT !.open = newOpen], "onOpenChange", BoolStr(newOpen)))

setValue(r, newValue) ==
    Run(r, Call([r EXCEPT !.value = newValue], "onChange", newValue))

handleSearchChange(r, newSearch) ==
    Run(r, Call([r EXCEPT !.search = newSearch], "onSearchChange", newSearch))

\* the raw state setters
setSearchState(r, s) == Run(r, [r EXCEPT !.search = s])
setActiveItem(r, id) == Run(r, [r EXCEPT !.activeItem = id])

preventDefault(r) == Run(r, [r EXCEPT !.prevented = TRUE])

\* a navigation that never scrolls
scrollIntoView_Never(r, map, id) == r

\* itemsMap.current.get(id)?.current?.scrollIntoView({ block: 'nearest' })
scrollIntoView(r, map, id) ==
    IF id \in Range(map) THEN Run(r, [r EXCEPT !.scrolled = @ \cup {id}]) ELSE r

\* ------------------------------------------------------------ handleKeyDown
\* ArrowDown that stops at the last item instead of wrapping
ArrowDownKey_NoWrap(r, items) ==
    LET currentIndex == IF Truthy(r.activeItem)
                        THEN indexOf(items, r.activeItem) ELSE -1
        nextIndex == IF currentIndex + 1 < Len(items)
                     THEN currentIndex + 1 ELSE currentIndex
    IN scrollIntoView(setActiveItem(preventDefault(r), At(items, nextIndex)),
                      items, At(items, nextIndex))

ArrowDownKey(r, items) ==
    LET currentIndex == IF Truthy(r.activeItem)
                        THEN indexOf(items, r.activeItem) ELSE -1
        nextIndex == JsRem(currentIndex + 1, Len(items))
    IN scrollIntoView(setActiveItem(preventDefault(r), At(items, nextIndex)),
                      items, At(items, nextIndex))

\* ArrowUp that stops at the first item instead of wrapping
ArrowUpKey_NoWrap(r, items) ==
    LET currentIndex == IF Truthy(r.activeItem)
                        THEN indexOf(items, r.activeItem) ELSE 0
        prevIndex == IF currentIndex - 1 >= 0 THEN currentIndex - 1 ELSE 0
    IN scrollIntoView(setActiveItem(preventDefault(r), At(items, prevIndex)),
                      items, At(items, prevIndex))

ArrowUpKey(r, items) ==
    LET currentIndex == IF Truthy(r.activeItem)
                        THEN indexOf(items, r.activeItem) ELSE 0
        prevIndex == JsRem(currentIndex - 1 + Len(items), Len(items))
    IN scrollIntoView(setActiveItem(preventDefault(r), At(items, prevIndex)),
                      items, At(items, prevIndex))

\* Enter that commits and closes but leaves the search text
EnterKey_KeepsSearch(r) ==
    IF Truthy(r.activeItem)
    THEN setOpen(setValue(preventDefault(r), r.activeItem), FALSE)
    ELSE preventDefault(r)

EnterKey(r) ==
    IF Truthy(r.activeItem)
    THEN setSearchState(setOpen(setValue(preventDefault(r), r.activeItem), FALSE), "")
    ELSE preventDefault(r)

EscapeKey(r) == setOpen(preventDefault(r), FALSE)

\* a closed branch that opens on every key
handleKeyDown_OpensOnAnyKey(r, key, map) ==
    IF ~r.open
    THEN setOpen(r, TRUE)
    ELSE LET items == map IN
         IF Len(items) = 0 THEN r
         ELSE CASE key = "ArrowDown" -> ArrowDownKey(r, items)
                [] key = "ArrowUp"   -> ArrowUpKey(r, items)
                [] key = "Enter"     -> EnterKey(r)
                [] key = "Escape"    -> EscapeKey(r)
                [] OTHER             -> r

handleKeyDown(r, key, map) ==
    IF ~r.open
    THEN IF key = "ArrowDown" \/ key = "Enter" THEN setOpen(r, TRUE) ELSE r
    ELSE LET items == map IN
         IF Len(items) = 0 THEN r
         ELSE CASE key = "ArrowDown" -> ArrowDownKey(r, items)
                [] key = "ArrowUp"   -> ArrowUpKey(r, items)
                [] key = "Enter"     -> EnterKey(r)
                [] key = "Escape"    -> EscapeKey(r)
                [] OTHER             -> r

\* ------------------------------------------------------------ ComboboxItem
\* onClick
handleSelect(r, id, disabled) ==
    IF disabled THEN r
    ELSE handleSearchChange(
             setOpen(Call(setValue(r, id), "onSelect", id), FALSE), "")

\* a hover that highlights disabled items too
handleMouseEnter_AnyItem(r, id, disabled) == setActiveItem(r, id)

\* onMouseEnter
handleMouseEnter(r, id, disabled) ==
    IF ~disabled THEN setActiveItem(r, id) ELSE r

\* ------------------------------------- the index-based controller: handlers
\* the elements the shared items array holds; an item handle is live while
\* its element is in the document
ContainerEl == [el |-> "container", value |-> "", live |-> TRUE]
WrapperEl == [el |-> "inputWrapper", value |-> "", live |-> TRUE]
ItemEl(v) == [el |-> "item", value |-> v, live |-> TRUE]

\* where a mousedown can land: elsewhere in the document, on the container
\* outside the input and the items, on the input, or on a mounted item
OutsideTarget == "<outside>"
ContainerTarget == "<container>"
InputTarget == "<input>"

\* Node.contains, for an element of the items array and an event target
contains(ref, target) ==
    IF ref.el = "container" THEN target # OutsideTarget
    ELSE IF ref.el = "inputWrapper" THEN target = InputTarget
    ELSE ref.live /\ target = ref.value

StartIx == [open |-> openIx, searchValue |-> searchValue,
            activeIndex |-> activeIndex, calls |-> <<>>, thrown |-> FALSE]

\* the raw state setters of Combobox.tsx
setOpenIx(r, b) == Run(r, [r EXCEPT !.open = b])
setSearchValue(r, text) == Run(r, [r EXCEPT !.searchValue = text])
setActiveIndex(r, i) == Run(r, [r EXCEPT !.activeIndex = i])

handleValueChange(r, newValue) ==
    setOpenIx(Call(r, "onChange", newValue), FALSE)

\* a detector that looks at the item handles only
handleClickOutside_ItemsOnly(r, arr, target) ==
    IF ~\E i \in 3..Len(arr) : contains(arr[i], target)
    THEN setOpenIx(r, FALSE)
    ELSE r

handleClickOutside(r, arr, target) ==
    IF ~\E i \in 1..Len(arr) : contains(arr[i], target)
    THEN setOpenIx(r, FALSE)
    ELSE r

\* ComboboxInput handleKeyDown; e.preventDefault() is not tracked here
handleKeyDownIx(r, key, arr, count) ==
    CASE key = "ArrowDown" ->
           LET o == setOpenIx(r, TRUE)
               prev == o.activeIndex
           IN setActiveIndex(o, IF prev < count - 1 THEN prev + 1 ELSE 0)
      [] key = "ArrowUp" ->
           LET o == setOpenIx(r, TRUE)
               prev == o.activeIndex
           IN setActiveIndex(o, IF prev > 0 THEN prev - 1 ELSE count - 1)
      [] key = "Enter" ->
           IF r.activeIndex >= 0 /\ r.activeIndex < count
              /\ r.activeIndex + 3 <= Len(arr)
              /\ arr[r.activeIndex + 3].value # ""
           THEN handleValueChange(r, arr[r.activeIndex + 3].value)
           ELSE r
      [] key = "Escape" -> setOpenIx(r, FALSE)
      [] OTHER -> r

handleChange(r, text) ==
    setActiveIndex(
        setOpenIx(Call(setSearchValue(r, text), "onSearchChange", text), TRUE),
        -1)

handleClick(r, v, disabled) ==
    IF ~disabled THEN handleValueChange(r, v) ELSE r

\* -------------------------------------- the index-based controller: actions
\* the ids of the items ComboboxContent renders
MountedIx(o, S) == IF o THEN S ELSE {}

\* the cleanup of an item that unmounts: it splices its handle out when
\* itemRef.current is still set, and leaves it in the array when React has
\* already detached the ref
Unmount(arr, gone) ==
    IF splices
    THEN SelectSeq(arr, LAMBDA h : ~(h.el = "item" /\ h.live /\ h.value \in gone))
    ELSE [i \in 1..Len(arr) |->
             IF arr[i].el = "item" /\ arr[i].live /\ arr[i].value \in gone
             THEN [arr[i] EXCEPT !.live = FALSE] ELSE arr[i]]

\* the effects of the items that mount push their handles, in tree order
RECURSIVE Push(_, _)
Push(arr, ids) ==
    IF ids = <<>> THEN arr ELSE Push(Append(arr, ItemEl(Head(ids))), Tail(ids))

Commit(arr, old, new) ==
    Push(Unmount(arr, old \ new),
         SelectSeq(IdNames, LAMBDA x : x \in new \ old))

SnapshotIx == [open |-> openIx, searchValue |-> searchValue,
               activeIndex |-> activeIndex, items |-> itemsRef,
               itemCount |-> itemCount]

\* React applies what the handler r queued and renders Combobox and the
\* consumers of its context when something changed; S is the host's list
ApplyIx(r, S, name, arg) ==
    LET render == <<r.open, r.searchValue, r.activeIndex, S>>
                      # <<openIx, searchValue, activeIndex, shownIx>>
        next == Commit(itemsRef, MountedIx(openIx, shownIx), MountedIx(r.open, S))
    IN /\ Len(next) <= MaxHandles + 2
       /\ openIx' = r.open
       /\ searchValue' = r.searchValue
       /\ activeIndex' = r.activeIndex
       /\ shownIx' = S
       /\ itemCount' = IF render THEN Len(itemsRef) - 2 ELSE itemCount
       /\ itemsRef' = IF render THEN next ELSE itemsRef
       /\ callsIx' = r.calls
       /\ evIx' = [name |-> name, arg |-> arg]
       /\ preIx' = SnapshotIx
       /\ UNCHANGED <<disabledIx, splices, idVars, hook>>

KeyDownIx ==
    /\ focusedIx
    /\ \E key \in Keys :
           ApplyIx(handleKeyDownIx(StartIx, key, itemsRef, itemCount), shownIx,
                   "keydown", key)
    /\ UNCHANGED focusedIx

InputChangeIx ==
    /\ focusedIx
    /\ \E text \in SearchTexts \ {searchValue} :
           ApplyIx(handleChange(StartIx, text), shownIx, "change", text)
    /\ UNCHANGED focusedIx

InputFocusIx ==
    /\ ~focusedIx
    /\ ApplyIx(setOpenIx(StartIx, TRUE), shownIx, "focus", "")
    /\ focusedIx' = TRUE

\* the document's mousedown listener; a mousedown outside the input takes
\* the focus from it
MouseDown ==
    \E target \in {OutsideTarget, ContainerTarget, InputTarget}
                     \cup MountedIx(openIx, shownIx) :
        /\ ApplyIx(handleClickOutside(StartIx, itemsRef, target), shownIx,
                   "mousedown", target)
        /\ focusedIx' = IF target = InputTarget THEN focusedIx ELSE FALSE

ItemClickIx ==
    \E v \in MountedIx(openIx, shownIx) :
        /\ ApplyIx(handleClick(StartIx, v, v \in disabledIx), shownIx,
                   "click", v)
        /\ UNCHANGED focusedIx

\* the host renders again with another list of items, Combobox with it
HostRenderIx ==
    \E S \in (SUBSET IxIds) \ {shownIx} :
        /\ ApplyIx(StartIx, S, "hostRender", "")
        /\ UNCHANGED focusedIx

\* the state after the first render of the index-based widget and its refs
\* and effects: closed, so no item is mounted
MountIx(lists, disabled, reacts) ==
    /\ openIx = FALSE
    /\ searchValue = ""
    /\ activeIndex = -1
    /\ itemsRef = <<ContainerEl, WrapperEl>>
    /\ itemCount = -2
    /\ shownIx \in lists
    /\ disabledIx \in disabled
    /\ focusedIx = FALSE
    /\ splices \in reacts
    /\ callsIx = <<>>
    /\ evIx = [name |-> "mount", arg |-> ""]
    /\ preIx = [open |-> FALSE, searchValue |-> "", activeIndex |-> -1,
                items |-> <<>>, itemCount |-> -2]

\* ------------------------------------------------------------- useCombobox
\* useContext(ComboboxContext) where no provider is above: the default of
\* createContext, undefined
NoContext == [provider |-> FALSE, open |-> FALSE, search |-> "", value |-> "",
              activeItem |-> null, activeIndex |-> -1]

\* the value the provider of each controller passes down, an object
ProviderValue(variant) ==
    IF variant = "id"
    THEN [provider |-> TRUE, open |-> open, search |-> search, value |-> value,
          activeItem |-> activeItem, activeIndex |-> -1]
    ELSE [provider |-> TRUE, open |-> openIx, search |-> searchValue,
          value |-> "", activeItem |-> null, activeIndex |-> activeIndex]

\* !context: undefined is falsy, every object is truthy
Falsy(context) == ~context.provider

\* a hook that hands on whatever useContext gave
useCombobox_NoCheck(context) ==
    [threw |-> FALSE, error |-> "", context |-> context]

\* part_000:84-90
useCombobox(context) ==
    IF Falsy(context)
    THEN [threw |-> TRUE,
          error |-> "useCombobox must be used within a Combobox provider",
          context |-> NoContext]
    ELSE [threw |-> FALSE, error |-> "", context |-> context]

\* Combobox.tsx:72-78
useComboboxIx(context) ==
    IF Falsy(context)
    THEN [threw |-> TRUE,
          error |-> "Combobox components must be used within a Combobox",
          context |-> NoContext]
    ELSE [threw |-> FALSE, error |-> "", context |-> context]

Variants == {"id", "index"}

\* a leaf (Input, Content, Item) of one of the controllers renders, inside
\* its Combobox or somewhere else in the host's tree, and calls the hook first
LeafRender ==
    \E variant \in Variants, inside \in BOOLEAN :
        LET context == IF inside THEN ProviderValue(variant) ELSE NoContext
        IN /\ hook' = [variant |-> variant, inside |-> inside,
                       given |-> context,
                       out |-> IF variant = "id" THEN useCombobox(context)
                               ELSE useComboboxIx(context)]
           /\ UNCHANGED <<idVars, ixVars>>

\* no leaf has rendered outside the widgets' own renders
IdleHook ==
    hook = [variant |-> "none", inside |-> FALSE, given |-> NoContext,
            out |-> [threw |-> FALSE, error |-> "", context |-> NoContext]]

\* a page without the index-based widget's events: it stays as mounted
IdleIx == MountIx({{}}, {{}}, {FALSE}) /\ IdleHook

\* ----------------------------------------------------------------- actions
Snapshot == [search |-> search, open |-> open, value |-> value,
             activeItem |-> activeItem, itemsMap |-> itemsMap]

\* an arrow key pressed while open with a non-empty registry: a navigation move
IsNav(o, map, name, arg) ==
    name = "keydown" /\ arg \in {"ArrowDown", "ArrowUp"} /\ o /\ Len(map) > 0

NoPrev == [key |-> "", activeItem |-> null, itemsMap |-> <<>>]

\* presses when the last events are not a run of ArrowDown presses
NoCount == -1

\* presses is 0 after an ArrowDown pressed while Closed with no active item,
\* and k after k more ArrowDown presses with no other event between them
Counted(name, arg) ==
    IF name = "keydown" /\ arg = "ArrowDown"
    THEN IF ~open /\ activeItem = null THEN 0
         ELSE IF presses \in 0..(MaxPresses - 1) THEN presses + 1
         ELSE NoCount
    ELSE NoCount

\* pre2 is kept only across two navigation moves in a row
History(name, arg) ==
    /\ ev' = [name |-> name, arg |-> arg]
    /\ pre' = Snapshot
    /\ pre2' = IF IsNav(open, itemsMap, name, arg)
                  /\ IsNav(pre.open, pre.itemsMap, ev.name, ev.arg)
               THEN [key |-> ev.arg, activeItem |-> pre.activeItem,
                     itemsMap |-> pre.itemsMap]
               ELSE NoPrev
    /\ presses' = Counted(name, arg)
    /\ UNCHANGED <<throwing, ixVars, hook>>

\* React applies what the handler r queued (also when the handler was left by
\* an exception: the updates queued before it stay), the host answers onChange, the
\* controlled-value effect runs, and the tree is rendered again.
\* accept: a controlled host stores the value onChange gave it.
Apply(r, accept, name, arg) ==
    LET changed == {i \in 1..Len(r.calls) : r.calls[i].cb = "onChange"}
        prop    == IF controlledValue # undefined /\ accept /\ changed # {}
                   THEN r.calls[CHOOSE i \in changed : TRUE].arg
                   ELSE controlledValue
        val     == IF prop # controlledValue THEN prop ELSE r.value
        render  == <<r.search, r.open, val, r.activeItem, prop>>
                       # <<search, open, value, activeItem, controlledValue>>
    IN /\ search' = r.search
       /\ open' = r.open
       /\ activeItem' = r.activeItem
       /\ controlledValue' = prop
       /\ value' = val
       /\ itemsMap' = IF render
                      THEN ItemEffects(itemsMap, Mounted(open, shown),
                                       Mounted(r.open, shown))
                      ELSE itemsMap
       /\ calls' = r.calls
       /\ prevented' = r.prevented
       /\ scrolled' = r.scrolled
       /\ History(name, arg)
       /\ UNCHANGED <<shown, disabledIds>>

\* what a host does with the value onChange gives it: an uncontrolled host has
\* no prop to store it in
Accepts == IF controlledValue = undefined THEN {FALSE} ELSE BOOLEAN

\* a keydown on the focused input, bubbling to the Combobox div
KeyDown ==
    /\ focused
    /\ \E key \in Keys, accept \in Accepts :
           Apply(handleKeyDown(Start, key, itemsMap), accept, "keydown", key)
    /\ UNCHANGED focused

\* ComboboxInput onChange: the user edits the text
InputChange ==
    /\ focused
    /\ \E text \in SearchTexts \ {search} :
           Apply(handleSearchChange(Start, text), FALSE, "setSearch", text)
    /\ UNCHANGED focused

\* the clear button, rendered while search is not empty (and the host is not
\* loading); the click takes the focus from the input
ClearClick ==
    /\ search # ""
    /\ Apply(handleSearchChange(Start, ""), FALSE, "clear", "")
    /\ focused' = FALSE

\* ComboboxInput onFocus: by the user, or by autoFocus after the mount
InputFocus ==
    /\ ~focused
    /\ Apply(setOpen(Start, TRUE), FALSE, "focus", "")
    /\ focused' = TRUE

\* a click on a mounted item
ItemClick ==
    \E id \in Range(Mounted(open, shown)), accept \in Accepts :
        /\ Apply(handleSelect(Start, id, id \in disabledIds), accept, "click", id)
        /\ UNCHANGED focused

\* the pointer enters a mounted item
ItemMouseEnter ==
    \E id \in Range(Mounted(open, shown)) :
        /\ Apply(handleMouseEnter(Start, id, id \in disabledIds), FALSE, "hover", id)
        /\ UNCHANGED focused

HostFrame(name) ==
    /\ calls' = <<>>
    /\ prevented' = FALSE
    /\ scrolled' = {}
    /\ History(name, "")

\* the host renders again (filtering, new results), Combobox with it
HostRender ==
    \E S \in SUBSET Ids :
        /\ shown' = S
        /\ itemsMap' = ItemEffects(itemsMap, Mounted(open, shown), Mounted(open, S))
        /\ HostFrame("hostRender")
        /\ UNCHANGED <<search, open, value, activeItem, controlledValue,
                       disabledIds, focused>>

\* a component of the host inside ComboboxContent renders another list of
\* items; Combobox itself does not render
SubtreeRender ==
    \E S \in (SUBSET Ids) \ {shown} :
        /\ shown' = S
        /\ itemsMap' = SubtreeEffects(itemsMap, Mounted(open, shown),
                                      Mounted(open, S))
        /\ HostFrame("subtreeRender")
        /\ UNCHANGED <<search, open, value, activeItem, controlledValue,
                       disabledIds, focused>>

\* the input loses the focus; it has no onBlur handler
InputBlur ==
    /\ focused
    /\ focused' = FALSE
    /\ HostFrame("blur")
    /\ UNCHANGED <<search, open, value, activeItem, itemsMap, controlledValue,
                   shown, disabledIds>>

\* the values a controlled host gives the value prop of its own accord: the
\* reset to '' and a preset id
HostValues == {"", IdNames[1]}

\* a controlled host changes the value prop; the effect copies it
HostSetValue ==
    /\ controlledValue # undefined
    /\ \E v \in HostValues \ {controlledValue} :
        /\ controlledValue' = v
        /\ value' = v
        /\ itemsMap' = ItemEffects(itemsMap, Mounted(open, shown),
                                   Mounted(open, shown))
        /\ HostFrame("hostSetValue")
        /\ UNCHANGED <<search, open, activeItem, shown, disabledIds, focused>>

\* a consumer of the context calls registerItem / unregisterItem itself;
\* the calls write the ref and queue no state, so nothing renders
RegisterCall ==
    \E id \in Ids :
        /\ itemsMap' = registerItem(itemsMap, id)
        /\ calls' = <<>> /\ prevented' = FALSE /\ scrolled' = {}
        /\ History("registerItem", id)
        /\ UNCHANGED <<search, open, value, activeItem, controlledValue,
                       shown, disabledIds, focused>>

UnregisterCall ==
    \E id \in Ids :
        /\ itemsMap' = unregisterItem(itemsMap, id)
        /\ calls' = <<>> /\ prevented' = FALSE /\ scrolled' = {}
        /\ History("unregisterItem", id)
        /\ UNCHANGED <<search, open, value, activeItem, controlledValue,
                       shown, disabledIds, focused>>

\* the state after the first render and its effects, for a host that passes
\* one of the value props in props and disables one of the sets in disabled
Mount(props, disabled, throws) ==
    /\ search = ""
    /\ open \in BOOLEAN
    /\ controlledValue \in props
    /\ value = IF controlledValue = undefined THEN "" ELSE controlledValue
    /\ activeItem = null
    /\ shown \in SUBSET Ids
    /\ disabledIds \in disabled
    /\ itemsMap = registerAll(<<>>, Mounted(open, shown))
    /\ focused = FALSE
    /\ throwing \in throws
    /\ calls = <<>>
    /\ prevented = FALSE
    /\ scrolled = {}
    /\ ev = [name |-> "mount", arg |-> ""]
    /\ pre = [search |-> "", open |-> open, value |-> value,
              activeItem |-> null, itemsMap |-> <<>>]
    /\ pre2 = NoPrev
    /\ presses = NoCount

\* the uncontrolled host: no value prop
Init ==
    /\ Mount({undefined}, {D \in SUBSET Ids : Cardinality(D) <= MaxDisabled},
             {{}})
    /\ IdleIx

\* the controlled host of the demo: value={value}, starting from useState('')
InitControlled == Mount({""}, {{}}, {{}}) /\ IdleIx

\* an uncontrolled host one of whose callbacks throws
Callbacks == {"onChange", "onOpenChange", "onSearchChange"}
InitThrow == Mount({undefined}, {{}}, {{cb} : cb \in Callbacks}) /\ IdleIx

Next ==
    \/ KeyDown
    \/ InputChange
    \/ ClearClick
    \/ InputFocus
    \/ InputBlur
    \/ ItemClick
    \/ ItemMouseEnter
    \/ HostRender

Spec == Init /\ [][Next]_vars

\* a controlled host whose items mount and unmount; the user opens, closes,
\* navigates and commits, and does not type
NextControlled ==
    \/ KeyDown
    \/ InputFocus
    \/ ItemClick
    \/ HostRender
    \/ SubtreeRender
    \/ HostSetValue

SpecControlled == InitControlled /\ [][NextControlled]_vars

SpecThrow == InitThrow /\ [][Next]_vars

\* the registry under direct calls of the two context functions
InitRegistry == Mount({undefined}, {{}}, {{}}) /\ IdleIx

NextRegistry ==
    \/ RegisterCall
    \/ UnregisterCall
    \/ HostRender

SpecRegistry == InitRegistry /\ [][NextRegistry]_vars

\* the index-based widget on a page of its own; the id-keyed one stays as
\* mounted, closed and without items
InitIndex ==
    /\ Mount({undefined}, {{}}, {{}}) /\ ~open /\ shown = {}
    /\ MountIx(SUBSET IxIds, {{}, {IdNames[1]}}, BOOLEAN)
    /\ IdleHook

NextIndex ==
    \/ KeyDownIx
    \/ InputChangeIx
    \/ InputFocusIx
    \/ MouseDown
    \/ ItemClickIx
    \/ HostRenderIx

SpecIndex == InitIndex /\ [][NextIndex]_vars

\* the index-based widget with a host whose onSearchChange throws
InitIndexThrow ==
    /\ Mount({undefined}, {{}}, {{"onSearchChange"}}) /\ ~open /\ shown = {}
    /\ MountIx(SUBSET IxIds, {{}}, {FALSE})
    /\ IdleHook

SpecIndexThrow == InitIndexThrow /\ [][NextIndex]_vars

\* leaves rendering inside and outside the two widgets while the user opens
\* both and works the keyboard of the id-keyed one
InitHook ==
    /\ Mount({undefined}, {{}}, {{}}) /\ ~open /\ shown = {IdNames[1]}
    /\ MountIx({IxIds}, {{}}, {FALSE})
    /\ IdleHook

NextHook ==
    \/ LeafRender
    \/ InputFocus
    \/ KeyDown
    \/ InputFocusIx

SpecHook == InitHook /\ [][NextHook]_vars

\* ------------------------------------------------------------ properties
\* the last event was an arrow key handled by the open branch with a
\* non-empty registry
NavMove == IsNav(pre.open, pre.itemsMap, ev.name, ev.arg)

\* the last event was key pressed while Open
OpenKey(key) == ev.name = "keydown" /\ ev.arg = key /\ pre.open

\* the arguments onChange got during the last event, in order
OnChangeArgs ==
    LET c == SelectSeq(calls, LAMBDA x : x.cb = "onChange")
    IN [i \in 1..Len(c) |-> c[i].arg]

First(s) == s[1]
Last(s) == s[Len(s)]

\* 1-based position of x in s
Pos(s, x) == CHOOSE i \in 1..Len(s) : s[i] = x

\* C1: activeItem is null or an id present in itemsMap, in every reachable
\* state.
C1_ActiveItemRegistered ==
    activeItem = null \/ activeItem \in Range(itemsMap)

\* C2: after setSearch(text), by typing or by the clear button, open is true,
\* activeItem is null and search is text.
C2_SetSearchOpensAndClears ==
    ev.name \in {"setSearch", "clear"} =>
        open /\ activeItem = null /\ search = ev.arg

\* C3: the id ArrowDown / ArrowUp make active while Open belongs to a mounted
\* item that is not disabled.
C3_NavSkipsDisabled ==
    NavMove => activeItem \in Range(itemsMap) /\ activeItem \notin disabledIds

\* C4: a commit aimed at a disabled item, by a click on it or by Enter while
\* it is the active item, leaves value and open unchanged and does not call
\* onChange.
C4_DisabledCommitNoOp ==
    (\/ ev.name = "click" /\ ev.arg \in disabledIds
     \/ OpenKey("Enter") /\ pre.activeItem \in disabledIds)
    => value = pre.value /\ open = pre.open /\ OnChangeArgs = <<>>

\* C5: Enter while Open with an activeItem that is not in the registry changes
\* nothing: value, open and search stay and onChange is not called.
C5_UnknownCommitNoOp ==
    (OpenKey("Enter") /\ pre.activeItem # null
                      /\ pre.activeItem \notin Range(pre.itemsMap))
    => /\ value = pre.value /\ open = pre.open /\ search = pre.search
       /\ OnChangeArgs = <<>>

\* the last event was a commit of id: a click on its item, or Enter while it
\* was active, with id registered and not disabled
Committed(id) ==
    /\ id \in Range(pre.itemsMap) /\ id \notin disabledIds
    /\ \/ ev.name = "click" /\ ev.arg = id
       \/ OpenKey("Enter") /\ pre.activeItem = id

\* C6: a commit of a registered, non-disabled id ends with value = id,
\* open = false, search = '' and exactly one onChange call, with that id.
C6_CommitResult ==
    \A id \in Ids :
        Committed(id) =>
            value = id /\ ~open /\ search = "" /\ OnChangeArgs = <<id>>

\* Enter committed the active item while a search text was in the input
C6_Witness ==
    \E id \in Ids :
        /\ Committed(id) /\ ev.name = "keydown"
        /\ pre.search # "" /\ pre.value # id /\ value = id

\* C7: with the active item at position i of the n registered ids, ArrowDown
\* makes the id at i + 1 active, or the first when i = n; ArrowUp makes the id
\* at i - 1 active, or the last when i = 1.
C7_CircularNavigation ==
    (NavMove /\ pre.activeItem \in Range(pre.itemsMap)) =>
        LET items == pre.itemsMap
            n == Len(items)
            i == Pos(items, pre.activeItem)
        IN /\ ev.arg = "ArrowDown" =>
                 activeItem = IF i = n THEN First(items) ELSE items[i + 1]
           /\ ev.arg = "ArrowUp" =>
                 activeItem = IF i = 1 THEN Last(items) ELSE items[i - 1]

\* ArrowDown on the last of three ids wrapped to the first
C7_Witness ==
    /\ NavMove /\ ev.arg = "ArrowDown"
    /\ Len(pre.itemsMap) = 3
    /\ pre.activeItem = Last(pre.itemsMap)
    /\ activeItem = First(pre.itemsMap)

\* the last two events were opposite arrow keys, both navigation moves on the
\* same registry
RoundTrip ==
    /\ NavMove /\ pre2.key # "" /\ pre2.key # ev.arg
    /\ pre2.itemsMap = pre.itemsMap

C9_NoPositionSelectsEnds ==
    (NavMove /\ pre.activeItem \notin Range(pre.itemsMap)) =>
        activeItem = IF ev.arg = "ArrowDown" THEN First(pre.itemsMap)
                                             ELSE Last(pre.itemsMap)

\* C10: Escape in any Open state closes, leaving search and value unchanged.
C10_EscapeCloses ==
    OpenKey("Escape") =>
        ~open /\ search = pre.search /\ value = pre.value

\* the last event was key pressed while Closed
ClosedKey == ev.name = "keydown" /\ ~pre.open

\* C11: while Closed, ArrowDown or Enter opens, calls onOpenChange(true) and
\* nothing else, and leaves activeItem, value and search unchanged; any other
\* key changes no state and calls nothing.
C11_ClosedKeyOnlyOpens ==
    ClosedKey =>
        /\ activeItem = pre.activeItem /\ value = pre.value
        /\ search = pre.search /\ OnChangeArgs = <<>>
        /\ IF ev.arg \in {"ArrowDown", "Enter"}
           THEN open /\ calls = <<[cb |-> "onOpenChange", arg |-> "true"]>>
           ELSE ~open /\ calls = <<>> /\ itemsMap = pre.itemsMap

\* C12: whenever the host passes a value prop, the value of the context equals
\* that prop, also after a commit the host does not answer.
C12_ControlledValueWins ==
    controlledValue # undefined => value = controlledValue

\* C14: a commit ends with value = id, open = false and search = '' also when
\* onChange, onOpenChange or onSearchChange throws during it.
C14_CommitDespiteThrow ==
    \A id \in Ids :
        (Committed(id) /\ throwing # {}) =>
            value = id /\ ~open /\ search = ""

\* C20: from Closed with no active item the first ArrowDown only opens and
\* leaves activeItem absent; the k-th ArrowDown after it makes the k-th
\* registered id active, counted modulo the number of registered ids.
C20_ArrowDownCounts ==
    /\ presses = 0 =>
           /\ open /\ activeItem = null
           /\ value = pre.value /\ search = pre.search
    /\ (presses >= 1 /\ pre.itemsMap # <<>>) =>
           /\ itemsMap = pre.itemsMap
           /\ activeItem = itemsMap[((presses - 1) % Len(itemsMap)) + 1]

\* two presses after the opening one, with react, vue, angular registered
C20_Witness ==
    /\ presses = 2
    /\ pre.itemsMap = <<"react", "vue", "angular">>
    /\ activeItem = "vue"

\* C17: registerItem for an id already registered leaves the registered ids
\* and their order unchanged, and unregisterItem for an id that is not
\* registered leaves the registry unchanged.
C17_RegistryIdempotent ==
    /\ (ev.name = "registerItem" /\ ev.arg \in Range(pre.itemsMap)) =>
           itemsMap = pre.itemsMap
    /\ (ev.name = "unregisterItem" /\ ev.arg \notin Range(pre.itemsMap)) =>
           itemsMap = pre.itemsMap

\* the first of several registered ids was registered again
C17_Witness ==
    /\ ev.name = "registerItem"
    /\ Len(pre.itemsMap) >= 2
    /\ ev.arg = First(pre.itemsMap)

\* C18: the ids in the registry are exactly the ids of the mounted items,
\* whatever items mounted and unmounted and however the value prop changed;
\* a navigation move only chooses an id registered at the time of the move.
C18_RegistryIsMounted ==
    /\ Range(itemsMap) = Range(Mounted(open, shown))
    /\ Len(itemsMap) = Cardinality(Range(itemsMap))
    /\ NavMove => activeItem \in Range(pre.itemsMap)

\* while Open, one render unmounted an item and mounted another
C18_Witness ==
    /\ ev.name = "subtreeRender" /\ open
    /\ Range(pre.itemsMap) \ Range(itemsMap) # {}
    /\ Range(itemsMap) \ Range(pre.itemsMap) # {}

\* C16: a mousedown outside every handle of the items array sets open to
\* false, one inside a handle leaves open unchanged; searchValue and
\* activeIndex are unchanged and onChange is not called.
C16_OutsideClickCloses ==
    evIx.name = "mousedown" =>
        /\ openIx = IF \E i \in 1..Len(preIx.items) :
                           contains(preIx.items[i], evIx.arg)
                    THEN preIx.open ELSE FALSE
        /\ evIx.arg = OutsideTarget => ~openIx
        /\ evIx.arg # OutsideTarget => openIx = preIx.open
        /\ searchValue = preIx.searchValue
        /\ activeIndex = preIx.activeIndex
        /\ callsIx = <<>>

\* a mousedown outside closed an open widget that had a text and a highlight
C16_Witness ==
    /\ evIx.name = "mousedown" /\ evIx.arg = OutsideTarget
    /\ preIx.open /\ ~openIx
    /\ searchValue # "" /\ activeIndex >= 0

\* a mousedown on the input left an open widget open
C16_WitnessInside ==
    /\ evIx.name = "mousedown" /\ evIx.arg = InputTarget
    /\ preIx.open /\ openIx

\* C15: in both controllers useCombobox throws an Error and returns no
\* context when no provider is above the leaf, and returns the provider's
\* context without throwing when one is.
C15_HookNeedsProvider ==
    hook.variant \in Variants =>
        IF hook.inside
        THEN /\ ~hook.out.threw
             /\ hook.out.context = hook.given /\ hook.given.provider
        ELSE /\ hook.out.threw /\ hook.out.error # ""
             /\ hook.out.context = NoContext

\* a leaf of the id-keyed controller rendered outside a Combobox and threw
C15_Witness ==
    hook.variant = "id" /\ ~hook.inside /\ hook.out.threw

\* the arguments of the calls of callback cb during the last event, in order
ArgsOf(cb) ==
    LET c == SelectSeq(calls, LAMBDA x : x.cb = cb)
    IN [i \in 1..Len(c) |-> c[i].arg]

\* C13: every event that changes the search text calls onSearchChange, last
\* with the new text, so the host's copy equals the controller's search.
C13_SearchChangeNotified ==
    search # pre.search =>
        /\ ArgsOf("onSearchChange") # <<>>
        /\ Last(ArgsOf("onSearchChange")) = search

\* C19: onOpenChange(b) is called once on an event that changes open to b,
\* and not at all on an event that leaves open unchanged.
C19_OpenChangeExactly ==
    ArgsOf("onOpenChange") =
        IF open # pre.open THEN <<BoolStr(open)>> ELSE <<>>

\* Enter opened a closed widget that still had a highlighted id, a value and
\* a search text
C11_Witness ==
    /\ ClosedKey /\ ev.arg = "Enter" /\ open
    /\ pre.activeItem # null /\ pre.value # "" /\ pre.search # ""

NavKeys == {"ArrowDown", "ArrowUp", "Enter", "Escape"}

\* C21: every keydown of ArrowDown, ArrowUp, Enter or Escape has its browser
\* default prevented, Closed or Open, with the registry empty or not.
C21_NavKeysPrevented ==
    (ev.name = "keydown" /\ ev.arg \in NavKeys) => prevented

\* C22: an ArrowDown / ArrowUp that sets the active item requests
\* scrollIntoView on the handle of the newly active id and on no other, and
\* no other event scrolls.
C22_NavScrollsToActive ==
    IF NavMove THEN scrolled = {activeItem} ELSE scrolled = {}

\* an arrow key moved the highlight from one registered id to another
C22_Witness ==
    /\ NavMove
    /\ pre.activeItem \in Range(pre.itemsMap)
    /\ activeItem # pre.activeItem
    /\ scrolled = {activeItem}

\* C23: when the host stops rendering the item whose id is activeItem, the
\* unmount leaves activeItem absent, not on a neighbour; the unmount of any
\* other item leaves activeItem unchanged.
C23_UnmountClearsActive ==
    ev.name = "hostRender" =>
        activeItem = IF pre.activeItem \in Range(pre.itemsMap) \ Range(itemsMap)
                     THEN null ELSE pre.activeItem

\* C24: ArrowDown visits the registered ids in the render order of the
\* mounted items, whatever mounts and unmounts came before: from the active
\* id it goes to the next mounted id in render order, wrapping at the end.
C24_NavInRenderOrder ==
    (NavMove /\ ev.arg = "ArrowDown" /\ pre.activeItem \in Range(pre.itemsMap)) =>
        LET order == RenderOrder(Range(pre.itemsMap))
            i == Pos(order, pre.activeItem)
        IN activeItem = order[(i % Len(order)) + 1]

\* the state Escape would leave, and the state a click on id would leave
AfterEscape == handleKeyDown(Start, "Escape", itemsMap)
AfterClick(id) == handleSelect(Start, id, id \in disabledIds)

\* C25: no state is stuck: in every Open state Escape or a commit closes the
\* widget as the search text and the mounted items are, and in every Closed
\* state focus or ArrowDown opens it.
C25_NeverStuck ==
    IF open
    THEN \/ ~AfterEscape.open
         \/ \E id \in Range(Mounted(open, shown)) : ~AfterClick(id).open
    ELSE \/ setOpen(Start, TRUE).open
         \/ handleKeyDown(Start, "ArrowDown", itemsMap).open

\* C26: focus on the input, ArrowDown, ArrowUp and typing each lead from
\* Closed to Open.
C26_ClosedEventsOpen ==
    (/\ ~pre.open
     /\ \/ ev.name \in {"focus", "setSearch"}
        \/ ev.name = "keydown" /\ ev.arg \in {"ArrowDown", "ArrowUp"})
    => open

\* the arguments onChange of the index-based widget got during the last event
OnChangeArgsIx ==
    LET c == SelectSeq(callsIx, LAMBDA x : x.cb = "onChange")
    IN [i \in 1..Len(c) |-> c[i].arg]

IxKey(key) == evIx.name = "keydown" /\ evIx.arg = key

\* the last event of the index-based widget was a commit of v: a click on its
\* item, not disabled, or an Enter that found it at the active index
CommittedIx(v) ==
    \/ evIx.name = "click" /\ evIx.arg = v /\ v \notin disabledIx
    \/ IxKey("Enter") /\ OnChangeArgsIx = <<v>>

\* C27: a successful commit in the index-based controller calls onChange with
\* the item's value, closes, and resets searchValue to ''.
C27_CommitResultIx ==
    \A v \in IxIds :
        CommittedIx(v) =>
            OnChangeArgsIx = <<v>> /\ ~openIx /\ searchValue = ""

\* C28: while Closed, ArrowDown or Enter opens the index-based widget,
\* leaves activeIndex unchanged and does not call onChange.
C28_ClosedKeyOnlyOpensIx ==
    (~preIx.open /\ (IxKey("ArrowDown") \/ IxKey("Enter"))) =>
        openIx /\ activeIndex = preIx.activeIndex /\ OnChangeArgsIx = <<>>

\* C29: an arrow key never leaves activeIndex on a mounted disabled item, and
\* Enter never calls onChange with the value of a disabled item.
C29_KeyboardSkipsDisabledIx ==
    /\ ((IxKey("ArrowDown") \/ IxKey("ArrowUp"))
           /\ activeIndex >= 0 /\ activeIndex + 3 <= Len(itemsRef)
           /\ itemsRef[activeIndex + 3].live)
       => itemsRef[activeIndex + 3].value \notin disabledIx
    /\ IxKey("Enter") => \A i \in 1..Len(OnChangeArgsIx) :
                             OnChangeArgsIx[i] \notin disabledIx

\* C30: with no item registered and itemCount = 0, ArrowDown and ArrowUp
\* leave activeIndex as it was, inside -1 .. itemCount - 1.
C30_EmptyNavNoOpIx ==
    ((IxKey("ArrowDown") \/ IxKey("ArrowUp"))
        /\ preIx.itemCount = 0 /\ Len(preIx.items) = 2 /\ Len(itemsRef) = 2)
    => /\ activeIndex = preIx.activeIndex
       /\ activeIndex \in -1..(preIx.itemCount - 1)

\* C31: typing into the input of the index-based widget ends with
\* searchValue = the typed text, open = true and activeIndex = -1, also when
\* onSearchChange throws.
C31_TypingOpensAndClearsIx ==
    evIx.name = "change" =>
        searchValue = evIx.arg /\ openIx /\ activeIndex = -1

\* C32: an item's handle is in the items array exactly while the item is
\* mounted, once: the handles after the container and the input wrapper are
\* those of the mounted items, and items.length - 2 is their number.
C32_HandlesAreMountedIx ==
    /\ Len(itemsRef) - 2 = Cardinality(MountedIx(openIx, shownIx))
    /\ {itemsRef[i].value : i \in 3..Len(itemsRef)} = MountedIx(openIx, shownIx)
    /\ \A i \in 3..Len(itemsRef) : itemsRef[i].live

\* the same, for the React that runs cleanups before it detaches refs
C32_HandlesAreMountedIfSpliced ==
    splices => C32_HandlesAreMountedIx

\* C33: a hover on an item that is not disabled makes its id the active item,
\* a hover on a disabled item leaves activeItem unchanged; open, search and
\* value stay and no host callback is called.
C33_HoverSetsActive ==
    ev.name = "hover" =>
        /\ activeItem = IF ev.arg \in disabledIds THEN pre.activeItem ELSE ev.arg
        /\ open = pre.open /\ search = pre.search /\ value = pre.value
        /\ calls = <<>>

\* the pointer entered a disabled item while another id was active
C33_Witness ==
    /\ ev.name = "hover" /\ ev.arg \in disabledIds
    /\ pre.activeItem \in Ids \ {ev.arg}
    /\ activeItem = pre.activeItem

\* C34: every step from Closed to Open ends with no active item.
C34_ReopenHasNoActive ==
    (~pre.open /\ open /\ ev.name \in {"focus", "keydown"}) =>
        activeItem = null

\* C35: without a value prop, value changes only by a commit of an id that was
\* registered and not disabled when it was committed.
C35_ValueOnlyByCommit ==
    (controlledValue = undefined /\ value # pre.value) => Committed(value)
====
